---------------------------- MODULE Spec2Model ----------------------------
(***************************************************************************)
(* A model of the Soulene conversation safety pipeline                     *)
(* (src/soulene_server.py): the ConversationHistory class, the text        *)
(* helpers, the four model-backed components with their fail-open          *)
(* handlers, the emergency number service and the POST /chat and           *)
(* POST /chat/clear handlers of SouleneServer.                             *)
(*                                                                         *)
(* Texts are TLA+ strings and the Python string operations the code uses   *)
(* (in, lower, strip, split, replace, slicing) are computed on them        *)
(* character by character.  Turn timestamps (datetime.now()) are left out: *)
(* nothing in the program reads them back.  The external model calls are   *)
(* nondeterministic inputs of the step that makes the call: the call       *)
(* raises, or returns text that is not JSON, or returns a JSON value.      *)
(***************************************************************************)
EXTENDS Integers, Sequences, FiniteSets, TLC

VARIABLES
    max_length,      \* ConversationHistory.max_length
    histories,       \* ConversationHistory.histories: session id -> list of turns
    loop_tracker,    \* ConversationHistory.loop_tracker: session id -> list of replies
    user_locations,  \* SouleneServer.user_locations: session id -> location
    cache,           \* EmergencyNumberService.cache: cache key -> info dict
    req,             \* per worker thread: the locals of the request it is handling
    nreq,            \* number of requests accepted so far (bounded by MaxRequests)
    last,            \* the last direct call of a ConversationHistory method and its result
    log,             \* per session: the turns passed to add_message since its last clear
    lookups          \* per cache key: the calls of the lookup model made so far

vars == <<max_length, histories, loop_tracker, user_locations, cache, req, nreq, last, log,
          lookups>>

-----------------------------------------------------------------------------
(* Bounds of the model *)

\* Config.MAX_HISTORY_LENGTH is 50; the model draws max_length from 1..MaxHmax
\* so that truncation happens within a few turns.
MaxHmax == 3
\* add_message / detect_loop calls per run of the class-level specification
MaxCalls == 6
\* the limits passed to get_recent_context are 0..MaxLimit
MaxLimit == 4
\* requests accepted per run of Spec, the server with the full set of inputs
MaxRequests == 1
\* requests accepted per run of SeqSpec, the server over several turns
MaxTurns == 3
\* requests accepted per run of ConcSpec, the server with two worker threads
MaxConc == 2

-----------------------------------------------------------------------------
(* Python dictionaries: a function whose domain is the set of keys present *)

EmptyDict == <<>>
HasKey(d, k) == k \in DOMAIN d
Get(d, k, default) == IF k \in DOMAIN d THEN d[k] ELSE default
Put(d, k, v) == [x \in (DOMAIN d) \cup {k} |-> IF x = k THEN v ELSE d[x]]
Pop(d, k) == [x \in (DOMAIN d) \ {k} |-> d[x]]

\* Python s[-n:] on a list or a string, n >= 0 (s[-0:] is the whole of s)
PyLast(s, n) == IF n = 0 \/ Len(s) <= n THEN s ELSE SubSeq(s, Len(s) - n + 1, Len(s))
\* Python s[:n]
PyFirst(s, n) == IF Len(s) <= n THEN s ELSE SubSeq(s, 1, n)
\* Python s[1:-1]
PyInner(s) == IF Len(s) <= 2 THEN SubSeq(s, 1, 0) ELSE SubSeq(s, 2, Len(s) - 1)

-----------------------------------------------------------------------------
(* Python string operations *)

CharAt(s, i) == SubSeq(s, i, i)
Whitespace == {" ", "\n", "\t"}

\* t in s
Contains(s, t) ==
    \E i \in 1..(Len(s) - Len(t) + 1) : SubSeq(s, i, i + Len(t) - 1) = t

\* s.find(t) as a 1-based index, 0 when absent
Find(s, t) ==
    IF Contains(s, t)
    THEN CHOOSE i \in 1..(Len(s) - Len(t) + 1) :
            /\ SubSeq(s, i, i + Len(t) - 1) = t
            /\ \A j \in 1..(i - 1) : SubSeq(s, j, j + Len(t) - 1) # t
    ELSE 0

StartsWith(s, t) == Len(s) >= Len(t) /\ SubSeq(s, 1, Len(t)) = t
EndsWith(s, t) == Len(s) >= Len(t) /\ SubSeq(s, Len(s) - Len(t) + 1, Len(s)) = t

\* the upper-case letters and their lower-case forms
LowerTable ==
    [A |-> "a", B |-> "b", C |-> "c", D |-> "d", E |-> "e", F |-> "f", G |-> "g",
     H |-> "h", I |-> "i", J |-> "j", K |-> "k", L |-> "l", M |-> "m", N |-> "n",
     O |-> "o", P |-> "p", Q |-> "q", R |-> "r", S |-> "s", T |-> "t", U |-> "u",
     V |-> "v", W |-> "w", X |-> "x", Y |-> "y", Z |-> "z"]
LowerChar(c) == IF c \in DOMAIN LowerTable THEN LowerTable[c] ELSE c

\* s[i..j] lower-cased, by halves
RECURSIVE LowerRange(_, _, _)
LowerRange(s, i, j) ==
    IF i > j THEN ""
    ELSE IF i = j THEN LowerChar(CharAt(s, i))
    ELSE LowerRange(s, i, (i + j) \div 2) \o LowerRange(s, (i + j) \div 2 + 1, j)
\* s.lower()
Lower(s) == LowerRange(s, 1, Len(s))

\* s.lstrip(chars) / s.rstrip(chars) / s.strip(chars)
LStripSet(s, chars) ==
    LET keep == {i \in 1..Len(s) : CharAt(s, i) \notin chars}
    IN  IF keep = {} THEN ""
        ELSE SubSeq(s, CHOOSE i \in keep : \A j \in keep : i <= j, Len(s))
RStripSet(s, chars) ==
    LET keep == {i \in 1..Len(s) : CharAt(s, i) \notin chars}
    IN  IF keep = {} THEN ""
        ELSE SubSeq(s, 1, CHOOSE i \in keep : \A j \in keep : i >= j)
StripSet(s, chars) == RStripSet(LStripSet(s, chars), chars)
\* s.strip() and s.rstrip()
Strip(s) == StripSet(s, Whitespace)
RStrip(s) == RStripSet(s, Whitespace)

\* s.split(sep)[0]
BeforeFirst(s, sep) ==
    IF Contains(s, sep) THEN SubSeq(s, 1, Find(s, sep) - 1) ELSE s
\* the text after the first occurrence of sep (s.split(sep, 1)[1], sep present)
AfterFirst(s, sep) == SubSeq(s, Find(s, sep) + Len(sep), Len(s))

\* s.replace(old, new): every non-overlapping occurrence, left to right
RECURSIVE Replace(_, _, _)
Replace(s, old, new) ==
    IF Contains(s, old)
    THEN SubSeq(s, 1, Find(s, old) - 1) \o new \o Replace(AfterFirst(s, old), old, new)
    ELSE s

\* s.split(): the whitespace-separated words of s
RECURSIVE SplitWords(_)
SplitWords(s) ==
    LET t == LStripSet(s, Whitespace)
        n == IF \E i \in 1..Len(t) : CharAt(t, i) \in Whitespace
             THEN (CHOOSE i \in 1..Len(t) :
                      /\ CharAt(t, i) \in Whitespace
                      /\ \A j \in 1..(i - 1) : CharAt(t, j) \notin Whitespace) - 1
             ELSE Len(t)
    IN  IF Len(t) = 0 THEN <<>>
        ELSE <<SubSeq(t, 1, n)>> \o SplitWords(SubSeq(t, n + 1, Len(t)))

\* " or ".join(parts)
RECURSIVE JoinOr(_)
JoinOr(parts) ==
    IF Len(parts) = 0 THEN ""
    ELSE IF Len(parts) = 1 THEN parts[1]
    ELSE parts[1] \o " or " \o JoinOr(Tail(parts))

-----------------------------------------------------------------------------
(* ConversationHistory *)

Turn(role, content) == [role |-> role, content |-> content]

\* add_message, trimming from the wrong end: keeps the oldest turns
AddMessageKeepOldest(hs, sid, role, content) ==
    LET h == Append(Get(hs, sid, <<>>), Turn(role, content))
    IN  Put(hs, sid, IF Len(h) > max_length THEN PyFirst(h, max_length) ELSE h)

\* add_message(session_id, role, content): the histories dict afterwards
AddMessage(hs, sid, role, content) ==
    LET h == Append(Get(hs, sid, <<>>), Turn(role, content))
    IN  Put(hs, sid, IF Len(h) > max_length THEN PyLast(h, max_length) ELSE h)

\* get_history(session_id)
GetHistory(hs, sid) == Get(hs, sid, <<>>)

RECURSIVE ContextOf(_)
ContextOf(turns) ==
    IF Len(turns) = 0 THEN ""
    ELSE (IF turns[1].role = "user" THEN "User" ELSE "Soulene")
            \o ": " \o turns[1].content \o "\n" \o ContextOf(Tail(turns))

\* the turns get_recent_context formats: history[-limit:] if len > limit else history
RecentTurns(hs, sid, limit) ==
    LET history == GetHistory(hs, sid)
    IN  IF Len(history) > limit THEN PyLast(history, limit) ELSE history

\* get_recent_context(session_id, limit)
GetRecentContext(hs, sid, limit) == ContextOf(RecentTurns(hs, sid, limit))

GroundingKeywords == {"breathe", "breath", "ground", "present", "room", "sit", "feet"}
LoopLookback == 3
LoopThreshold == 2
LoopWindowMax == 5

\* any(keyword in text.lower() for keyword in grounding_keywords)
HasGrounding(text) ==
    LET lowered == Lower(text)
    IN  \E k \in GroundingKeywords : Contains(lowered, k)

\* the number of grounding replies among loop_tracker[session_id][-3:]
GroundingCount(lt, sid) ==
    LET recent == PyLast(Get(lt, sid, <<>>), LoopLookback)
    IN  Cardinality({i \in DOMAIN recent : HasGrounding(recent[i])})

\* detect_loop that forgets to test the new reply for a grounding keyword
DetectLoopIgnoringNew(lt, sid, new_response) ==
    GroundingCount(lt, sid) >= LoopThreshold

\* detect_loop(session_id, new_response): the value returned
DetectLoop(lt, sid, new_response) ==
    HasGrounding(new_response) /\ GroundingCount(lt, sid) >= LoopThreshold

\* detect_loop that appends the new reply on its true path as well
LoopTrackerAlwaysAppend(lt, sid, new_response) ==
    LET w2 == Append(Get(lt, sid, <<>>), new_response)
    IN  Put(lt, sid, IF Len(w2) > LoopWindowMax THEN PyLast(w2, LoopWindowMax) ELSE w2)

\* detect_loop whose cap keeps the five oldest entries
LoopTrackerKeepOldest(lt, sid, new_response) ==
    LET w == Get(lt, sid, <<>>)
        w2 == Append(w, new_response)
    IN  IF HasGrounding(new_response) /\ GroundingCount(lt, sid) >= LoopThreshold
        THEN Put(lt, sid, w)
        ELSE Put(lt, sid, IF Len(w2) > LoopWindowMax THEN PyFirst(w2, LoopWindowMax) ELSE w2)

\* detect_loop(session_id, new_response): the loop_tracker dict afterwards
LoopTrackerAfter(lt, sid, new_response) ==
    LET w == Get(lt, sid, <<>>)
        w2 == Append(w, new_response)
    IN  IF HasGrounding(new_response) /\ GroundingCount(lt, sid) >= LoopThreshold
        THEN Put(lt, sid, w)
        ELSE Put(lt, sid, IF Len(w2) > LoopWindowMax THEN PyLast(w2, LoopWindowMax) ELSE w2)

\* a clear_session that drops the histories of all sessions
ClearAllHistories(hs, sid) == EmptyDict

\* clear_session(session_id)
ClearHistories(hs, sid) == Pop(hs, sid)
\* a clear_session that leaves the loop window in place
ClearKeepsLoopWindow(lt, sid) == lt

ClearLoopTracker(lt, sid) == Pop(lt, sid)

-----------------------------------------------------------------------------
(* JSON values and the results of calls to the external models *)

JNull == [t |-> "null"]
JBool(b) == [t |-> "bool", b |-> b]
JStr(s) == [t |-> "str", s |-> s]
JList(items) == [t |-> "list", items |-> items]
\* Python truthiness of a JSON value
Truthy(v) ==
    CASE v.t = "bool" -> v.b
      [] v.t = "str" -> v.s # ""
      [] v.t = "list" -> v.items # <<>>
      [] OTHER -> FALSE

\* a call to an external model: it raises, or returns text (which json.loads
\* rejects, or parses to a non-dict value, or parses to a dict)
Raised == [kind |-> "raise"]
NotJson == [kind |-> "notjson"]
JsonArray == [kind |-> "array"]
JsonObject(d) == [kind |-> "object", d |-> d]
TextOut(s) == [kind |-> "text", text |-> s]

-----------------------------------------------------------------------------
(* PreCheckCounter *)

SafeDefaults ==
    [risk_level |-> JStr("none"), risk_type |-> JStr("none"),
     requires_intervention |-> JBool(FALSE), intervention_type |-> JStr("none"),
     context_notes |-> JStr(""), block_response |-> JBool(FALSE)]

\* an analyze whose except branch blocks the reply
AnalyzeFailClosed(out) ==
    IF out.kind = "object"
    THEN [k \in DOMAIN SafeDefaults |-> Get(out.d, k, SafeDefaults[k])]
    ELSE [SafeDefaults EXCEPT !.block_response = JBool(TRUE)]

\* PreCheckCounter.analyze: the dict returned for the model's output
Analyze(out) ==
    IF out.kind = "object"
    THEN [k \in DOMAIN SafeDefaults |-> Get(out.d, k, SafeDefaults[k])]
    ELSE SafeDefaults

-----------------------------------------------------------------------------
(* EmergencyDetector *)

\* detect without the confidence gate
DetectUngated(out) ==
    IF out.kind = "object"
    THEN LET confidence == Get(out.d, "confidence", JStr("low"))
         IN  IF Truthy(Get(out.d, "is_emergency", JBool(FALSE)))
             THEN [is_emergency |-> TRUE,
                   emergency_type |-> Get(out.d, "emergency_type", JStr("none")),
                   confidence |-> confidence]
             ELSE [is_emergency |-> FALSE, emergency_type |-> JStr("none"),
                   confidence |-> confidence]
    ELSE [is_emergency |-> FALSE, emergency_type |-> JStr("none"), confidence |-> JStr("low")]

\* a detect that returns the model's emergency_type with a negative verdict
DetectKeepsType(out) ==
    IF out.kind = "object"
    THEN [is_emergency |-> Truthy(Get(out.d, "is_emergency", JBool(FALSE)))
                             /\ Get(out.d, "confidence", JStr("low"))
                                    \in {JStr("high"), JStr("medium")},
          emergency_type |-> Get(out.d, "emergency_type", JStr("none")),
          confidence |-> Get(out.d, "confidence", JStr("low"))]
    ELSE [is_emergency |-> FALSE, emergency_type |-> JStr("none"), confidence |-> JStr("low")]

\* EmergencyDetector.detect: (is_emergency, emergency_type, confidence)
Detect(out) ==
    IF out.kind = "object"
    THEN LET confidence == Get(out.d, "confidence", JStr("low"))
         IN  IF Truthy(Get(out.d, "is_emergency", JBool(FALSE)))
                /\ confidence \in {JStr("high"), JStr("medium")}
             THEN [is_emergency |-> TRUE,
                   emergency_type |-> Get(out.d, "emergency_type", JStr("none")),
                   confidence |-> confidence]
             ELSE [is_emergency |-> FALSE, emergency_type |-> JStr("none"),
                   confidence |-> confidence]
    ELSE [is_emergency |-> FALSE, emergency_type |-> JStr("none"), confidence |-> JStr("low")]

-----------------------------------------------------------------------------
(* detect_user_location.  None and '' are both written "": every use of   *)
(* the result is a truthiness test.                                        *)

LocationCues == {"i live in", "i am in", "from"}
LocationWords == {"in", "from"}

\* the word after the first standalone in/from of one message; found is FALSE
\* when the message has no such word followed by another
LocationInMessage(content) ==
    LET words == SplitWords(content)
        hits == {i \in 1..(Len(words) - 1) : Lower(words[i]) \in LocationWords}
    IN  IF hits = {} THEN [found |-> FALSE, value |-> ""]
        ELSE LET i == CHOOSE i \in hits : \A j \in hits : i <= j
             IN  [found |-> TRUE, value |-> StripSet(words[i + 1], {".", ",", "!", "?"})]

RECURSIVE DetectUserLocation(_)
DetectUserLocation(history) ==
    IF Len(history) = 0 THEN ""
    ELSE LET msg == history[1]
             text == Lower(msg.content)
             cued == msg.role = "user" /\ \E cue \in LocationCues : Contains(text, cue)
             hit == LocationInMessage(msg.content)
         IN  IF cued /\ hit.found THEN hit.value
             ELSE DetectUserLocation(Tail(history))

-----------------------------------------------------------------------------
(* EmergencyNumberService *)

\* cache_key = location or "default"
CacheKey(location) == IF location # "" THEN location ELSE "default"

\* the fallback record of the except branch
DefaultInfo(location) ==
    [k \in {"location", "police", "medical", "suicide_hotline", "verified", "source"} |->
        CASE k = "location" -> JStr(IF location # "" THEN location ELSE "India")
          [] k = "police" -> JStr("100")
          [] k = "medical" -> JStr("102 or 108")
          [] k = "suicide_hotline" -> JStr("AASRA 9820466726")
          [] k = "verified" -> JBool(FALSE)
          [] k = "source" -> JStr("default")]

\* the record a lookup yields and caches, given the model's output
LookupInfo(out, location) ==
    IF out.kind = "object" THEN out.d ELSE DefaultInfo(location)

\* format_emergency_numbers(info)
FormatEmergencyNumbers(info) ==
    LET medical == Get(info, "medical", JNull)
        police == Get(info, "police", JNull)
        hotline == Get(info, "suicide_hotline", JStr(""))
        parts == (IF Truthy(medical) THEN <<medical.s \o " (ambulance)">> ELSE <<>>)
            \o (IF Truthy(police) THEN <<police.s \o " (police)">> ELSE <<>>)
            \o (IF Truthy(hotline) /\ hotline # JStr("not available")
                THEN <<hotline.s \o " (crisis line)">> ELSE <<>>)
    IN  IF parts = <<>> THEN "112 (international emergency)" ELSE JoinOr(parts)

-----------------------------------------------------------------------------
(* SouleneAI.  The em dash of the two fallback lines is written "--".      *)

EmergencyToken == "[EMERGENCY_NUMBER]"

DangerIndicators ==
    {"going to kill myself", "kill myself", "i will kill", "i will end",
     "i am going to jump", "i am going to hurt myself", "have pills ready",
     "ready to end it"}
ExhaustionIndicators ==
    {"exhaust", "tired", "can't do this", "done", "wouldn't mind", "wish i was gone"}
FragmentMax == 120
FragmentMin == 5
UrgentLine == "Urgent--call [EMERGENCY_NUMBER] now. Are you still there?"

\* _rule_based_response(message)
RuleBasedResponse(message) ==
    LET text == Strip(message)
        lower == Lower(text)
        fragment == RStrip(PyFirst(BeforeFirst(text, "\n"), FragmentMax))
    IN  IF \E s \in DangerIndicators : Contains(lower, s) THEN UrgentLine
        ELSE IF \E s \in ExhaustionIndicators : Contains(lower, s)
        THEN (IF Len(fragment) < FragmentMin THEN "You're overwhelmed" ELSE fragment)
                \o "... That sounds brutal. You're reaching out--that matters."
        ELSE (IF fragment # "" THEN fragment ELSE "That sounds hard")
                \o "... I'm here with you. Tell me a bit more?"

\* generate_response(message, history): the model's trimmed text, or the
\* rule-based reply when the chat call raises
GenerateResponse(out, message) ==
    IF out.kind = "text" THEN Strip(out.text) ELSE RuleBasedResponse(message)

\* the placeholder replacement applied whether or not a number was resolved
SubstituteUnconditionally(draft_reply, emergency_number) ==
    Replace(draft_reply, EmergencyToken, emergency_number)

\* the substitution replacing only the first occurrence of the token
SubstituteFirstOnly(draft_reply, emergency_number) ==
    IF emergency_number # "" /\ Contains(draft_reply, EmergencyToken)
    THEN BeforeFirst(draft_reply, EmergencyToken) \o emergency_number
             \o AfterFirst(draft_reply, EmergencyToken)
    ELSE draft_reply

\* lines 776-777: replace the placeholder when a number was resolved
SubstitutePlaceholder(draft_reply, emergency_number) ==
    IF emergency_number # "" /\ Contains(draft_reply, EmergencyToken)
    THEN Replace(draft_reply, EmergencyToken, emergency_number)
    ELSE draft_reply

-----------------------------------------------------------------------------
(* CounterAI *)

RefinedLabel == "refined reply:"

\* a refine whose except branch returns no text
RefineEmptyOnFailure(out, draft_reply) ==
    IF out.kind # "text" THEN ""
    ELSE LET r0 == Strip(out.text)
             labelled == Contains(Lower(r0), RefinedLabel)
             r1 == IF labelled THEN Strip(AfterFirst(r0, RefinedLabel)) ELSE r0
         IN  IF labelled /\ ~Contains(r0, RefinedLabel)
             THEN ""
             ELSE IF StartsWith(r1, "\"") /\ EndsWith(r1, "\"") THEN PyInner(r1)
             ELSE r1

\* refine(...): the reply returned for the model's output and the draft
RefineReply(out, draft_reply) ==
    IF out.kind # "text" THEN draft_reply
    ELSE LET r0 == Strip(out.text)
             labelled == Contains(Lower(r0), RefinedLabel)
             r1 == IF labelled THEN Strip(AfterFirst(r0, RefinedLabel)) ELSE r0
         IN  IF labelled /\ ~Contains(r0, RefinedLabel)
             THEN draft_reply  \* split(...)[1] raises IndexError, caught
             ELSE IF StartsWith(r1, "\"") /\ EndsWith(r1, "\"") THEN PyInner(r1)
             ELSE r1

-----------------------------------------------------------------------------
(* Requests in flight *)

Workers == {1, 2}
Sessions == {"s1", "s2"}

NoResponse == [status |-> 0]

\* the locals of a worker that is handling no request
IdleReq ==
    [pc |-> "idle", kind |-> "none", session_id |-> "", user_message |-> "",
     recent_context |-> "", pre_check_data |-> SafeDefaults,
     is_emergency |-> FALSE, emergency_type |-> JStr("none"),
     user_location |-> "", emergency_number |-> "", history |-> <<>>,
     draft_reply |-> "", refined_reply |-> "", is_loop |-> FALSE,
     response |-> NoResponse,
     calls |-> <<>>,      \* the stages this request has invoked, in order
     appended |-> <<>>,   \* the turns this request has passed to add_message
     before |-> <<>>,     \* the session's history when the request arrived
     drafter_saw |-> <<>>,  \* the history this request passed to generate_response
     failed |-> {},       \* the stages whose model call raised or gave unusable output
     gated |-> FALSE,     \* the classifier said emergency without high/medium confidence
     raw_draft |-> "",    \* the draft before the placeholder substitution
     slice |-> <<>>,      \* add_message on a thread: the trimmed list before it is stored
     body |-> "",         \* a clear request: the kind of its body
     sid_field |-> [t |-> "absent"],  \* the session_id field as the body gave it
     known |-> {}]        \* a clear request: the stores that held its session id

NoCall == [op |-> "none", sid |-> "", arg |-> "", before |-> <<>>, result |-> FALSE]

Init ==
    /\ max_length \in 1..MaxHmax
    /\ histories = EmptyDict
    /\ loop_tracker = EmptyDict
    /\ user_locations = EmptyDict
    /\ cache = EmptyDict
    /\ req = [w \in Workers |-> IdleReq]
    /\ nreq = 0
    /\ last = NoCall
    /\ log = EmptyDict
    /\ lookups = EmptyDict

-----------------------------------------------------------------------------
(* The class-level specifications: direct calls of the ConversationHistory  *)
(* methods on one session, as the unit tests of src/test_soulene.py make.  *)

Digits == <<"0", "1", "2", "3", "4", "5", "6", "7", "8", "9">>
\* f"Message {i}" of test_max_history_length
TestMessage(i) == "Message " \o Digits[i + 1]

TestSession == "s1"
Roles == {"user", "assistant"}
\* replies handed to detect_loop: grounding by "breathe" after lower(), grounding
\* by the substring "sit", and two without a grounding keyword
TestReplies == {"Breathe slowly", "That situation is hard", "I hear you"}

ServerVars == <<user_locations, cache, req, nreq, lookups>>

\* history.add_message(session_id, role, f"Message {i}")
CallAddMessage(role) ==
    LET sid == TestSession
        n == Len(Get(log, sid, <<>>))
    IN  /\ n < MaxCalls
        /\ histories' = AddMessage(histories, sid, role, TestMessage(n))
        /\ log' = Put(log, sid, Append(Get(log, sid, <<>>), Turn(role, TestMessage(n))))
        /\ last' = NoCall
        /\ UNCHANGED <<max_length, loop_tracker, ServerVars>>

\* history.detect_loop(session_id, response)
CallDetectLoop(r) ==
    LET sid == TestSession
    IN  /\ loop_tracker' = LoopTrackerAfter(loop_tracker, sid, r)
        /\ last' = [op |-> "detect_loop", sid |-> sid, arg |-> r,
                    before |-> Get(loop_tracker, sid, <<>>),
                    result |-> DetectLoop(loop_tracker, sid, r)]
        /\ UNCHANGED <<max_length, histories, log, ServerVars>>

\* history.get_recent_context(session_id, limit=limit)
CallGetRecentContext(limit) ==
    LET sid == TestSession
    IN  /\ last' = [op |-> "get_recent_context", sid |-> sid, arg |-> limit,
                    before |-> GetHistory(histories, sid),
                    result |-> GetRecentContext(histories, sid, limit)]
        /\ UNCHANGED <<max_length, histories, loop_tracker, log, ServerVars>>

\* history.clear_session(session_id)
CallClearSession ==
    LET sid == TestSession
    IN  /\ histories' = ClearHistories(histories, sid)
        /\ loop_tracker' = ClearLoopTracker(loop_tracker, sid)
        /\ log' = Pop(log, sid)
        /\ last' = NoCall
        /\ UNCHANGED <<max_length, ServerVars>>

\* ConversationHistory used as a store of turns
HistNext ==
    \/ \E role \in Roles : CallAddMessage(role)
    \/ \E limit \in 0..MaxLimit : CallGetRecentContext(limit)
    \/ CallClearSession

HistSpec == Init /\ [][HistNext]_vars

\* ConversationHistory used as a loop guard
LoopInit == Init /\ max_length = MaxHmax

LoopNext ==
    \/ \E r \in TestReplies : CallDetectLoop(r)
    \/ CallClearSession

LoopSpec == LoopInit /\ [][LoopNext]_vars

-----------------------------------------------------------------------------
(* SouleneServer: POST /chat and POST /chat/clear.  A request body is      *)
(* unparseable or empty (data becomes {}), a JSON value that is not an     *)
(* object, or a JSON object.  Each action below is one stretch of the      *)
(* handler between two blocking calls to an external model.                *)

CONTEXT_WINDOW_SIZE == 10

CrisisReply ==
    "I'm really worried about you right now. Can you reach out to someone who can help? Call emergency services or a crisis hotline."
LoopBreakReply ==
    "Let's try something different. What's one thing you could do right now, just for the next five minutes?"

BadRequest == [status |-> 400, error |-> "No message provided"]
ServerError ==
    [status |-> 500, error |-> "Internal server error",
     message |-> "Something went wrong. Please try again."]
\* a blocked response whose reply is written out a second time, differently
BlockedResponseOtherText ==
    [status |-> 200, reply |-> "Please call emergency services or a crisis hotline.",
     is_emergency |-> TRUE, emergency_type |-> JStr("critical"),
     pre_check_intervention |-> TRUE]

\* lines 740-745: the response of the blocked path
BlockedResponse ==
    [status |-> 200, reply |-> CrisisReply, is_emergency |-> TRUE,
     emergency_type |-> JStr("critical"), pre_check_intervention |-> TRUE]
ChatResponse(final_reply, is_emergency, emergency_type, pre_check_data, is_loop) ==
    [status |-> 200, reply |-> final_reply, is_emergency |-> is_emergency,
     emergency_type |-> emergency_type, pre_check_data |-> pre_check_data,
     loop_detected |-> is_loop]
Cleared(session_id) == [status |-> 200, state |-> "cleared", session_id |-> session_id]
ClearError == [status |-> 500, state |-> "error"]

UnparseableBody == [kind |-> "unparseable"]
EmptyBody == [kind |-> "empty"]
\* valid JSON that is not an object: falsy ([], null, 0) or truthy ([1], "x")
NonObjectBody(truthy) == [kind |-> "nonobject", truthy |-> truthy]
ObjectBody(d) == [kind |-> "object", d |-> d]

\* (data.get('message') or '').strip()
MessageOf(d) ==
    LET v == Get(d, "message", JNull)
    IN  IF Truthy(v) THEN Strip(v.s) ELSE ""

\* line 711: data.get('history') or []
ClientHistory(d) ==
    LET v == Get(d, "history", JNull)
    IN  IF Truthy(v) THEN v.items ELSE <<>>

\* a handler that prefers the history sent by the client
DrafterHistoryFromClient(hs, session_id, history) ==
    IF history # <<>> THEN history ELSE GetHistory(hs, session_id)

\* lines 770-773: the history passed to generate_response
DrafterHistory(hs, session_id, history) == GetHistory(hs, session_id)

\* data.get('session_id') or 'default'
ChatSessionKey(d) ==
    LET v == Get(d, "session_id", JNull)
    IN  IF Truthy(v) THEN v.s ELSE "default"

\* the final reply when the loop override is forgotten
FinalReplyNoOverride(refined_reply, is_loop) == refined_reply

\* lines 797-803: the reply delivered
FinalReply(refined_reply, is_loop) ==
    IF is_loop THEN LoopBreakReply ELSE refined_reply

\* a handler that resolves the contacts in every turn
ResolvesContactsAlways(is_emergency) == TRUE

\* line 753: if is_emergency
ResolvesContacts(is_emergency) == is_emergency

\* a refiner whose except clause is missing: its failure reaches the handler
UncaughtInRefiner(stage, out) == stage = "refine" /\ out.kind = "raise"

\* whether a failure of a stage's model call escapes the stage's own
\* try/except (lines 345/374, 398/414, 431/438, 516/529, 548/588): none does
Uncaught(stage, out) == FALSE

\* a handler that never takes the blocked branch
BlocksNever(pre_check_data) == FALSE

\* line 734: if pre_check_data.get('block_response', False)
Blocks(pre_check_data) == Truthy(pre_check_data.block_response)

SetReq(w, r) == req' = [req EXCEPT ![w] = r]
Busy(w) == req[w].pc \notin {"idle", "done"}
Logged(sid, turn) == log' = Put(log, sid, Append(Get(log, sid, <<>>), turn))

\* lines 818-823: the outer except of the chat handler
Fail500(w) == SetReq(w, [req[w] EXCEPT !.pc = "done", !.response = ServerError])

\* lines 700-726: parse, validate, append the user turn, take the context
Receive(w, body, limit) ==
    /\ ~Busy(w)
    /\ IF body.kind = "nonobject"
       THEN \* data.get raises AttributeError: the outer except answers 500
            /\ SetReq(w, [IdleReq EXCEPT !.pc = "done", !.kind = "chat",
                                         !.response = ServerError])
            /\ UNCHANGED <<histories, nreq, log>>
       ELSE LET d == IF body.kind = "object" THEN body.d ELSE EmptyDict
                user_message == MessageOf(d)
                session_id == ChatSessionKey(d)
                hs == AddMessage(histories, session_id, "user", user_message)
            IN  IF user_message = ""
                THEN /\ SetReq(w, [IdleReq EXCEPT !.pc = "done", !.kind = "chat",
                                                  !.response = BadRequest])
                     /\ UNCHANGED <<histories, nreq, log>>
                ELSE /\ nreq < limit
                     /\ nreq' = nreq + 1
                     /\ histories' = hs
                     /\ Logged(session_id, Turn("user", user_message))
                     /\ SetReq(w, [IdleReq EXCEPT
                            !.pc = "precheck", !.kind = "chat",
                            !.session_id = session_id,
                            !.sid_field = Get(d, "session_id", [t |-> "absent"]),
                            !.user_message = user_message,
                            !.history = ClientHistory(d),
                            !.before = GetHistory(histories, session_id),
                            !.recent_context =
                                GetRecentContext(hs, session_id, CONTEXT_WINDOW_SIZE),
                            !.calls = <<"add_message">>,
                            !.appended = <<Turn("user", user_message)>>])
    /\ UNCHANGED <<max_length, loop_tracker, user_locations, cache, last, lookups>>

\* lines 728-745: the pre-check, and the blocked reply
PreCheck(w, out) ==
    LET r == req[w]
        pre_check_data == Analyze(out)
        r1 == [r EXCEPT !.pre_check_data = pre_check_data,
                        !.failed = IF out.kind = "object" THEN @ ELSE @ \cup {"analyze"}]
    IN  /\ r.pc = "precheck"
        /\ IF Uncaught("analyze", out)
           THEN Fail500(w) /\ UNCHANGED <<histories, log>>
           ELSE IF Blocks(pre_check_data)
           THEN /\ histories' = AddMessage(histories, r.session_id, "assistant", CrisisReply)
                /\ Logged(r.session_id, Turn("assistant", CrisisReply))
                /\ SetReq(w, [r1 EXCEPT
                       !.pc = "done", !.response = BlockedResponse,
                       !.calls = r.calls \o <<"analyze", "add_message">>,
                       !.appended = Append(r.appended, Turn("assistant", CrisisReply))])
           ELSE /\ UNCHANGED <<histories, log>>
                /\ SetReq(w, [r1 EXCEPT !.pc = "emergency",
                                        !.calls = Append(r.calls, "analyze")])
        /\ UNCHANGED <<max_length, loop_tracker, user_locations, cache, nreq, last, lookups>>

\* a handler that prefers the location detected in the history
ResolveLocationFresh(known, detected) == IF detected # "" THEN detected ELSE known

\* lines 755-758: the session's known location, else the detected one
ResolveLocation(known, detected) == IF known # "" THEN known ELSE detected

\* a service that never finds its cache entry
CacheNeverHit(c, cache_key) == FALSE

\* line 545: if cache_key in self.cache
CacheHit(c, cache_key) == HasKey(c, cache_key)

\* lines 747-766 up to the lookup call, as a function of the classifier's
\* output: the request's locals and user_locations afterwards
EmergencyStep(r, out) ==
    LET verdict == Detect(out)
        known == Get(user_locations, r.session_id, "")
        detected == DetectUserLocation(GetHistory(histories, r.session_id))
        user_location == ResolveLocation(known, detected)
        stages == (IF known = "" THEN <<"detect", "detect_user_location">>
                                 ELSE <<"detect">>) \o <<"get_emergency_info">>
        r1 == [r EXCEPT
                  !.is_emergency = verdict.is_emergency,
                  !.emergency_type = verdict.emergency_type,
                  !.failed = IF out.kind = "object" THEN @ ELSE @ \cup {"detect"},
                  !.gated = out.kind = "object" /\ ~verdict.is_emergency
                            /\ Truthy(Get(out.d, "is_emergency", JBool(FALSE)))]
    IN  IF ~ResolvesContacts(verdict.is_emergency)
        THEN [r |-> [r1 EXCEPT !.pc = "draft", !.calls = Append(r.calls, "detect")],
              user_locations |-> user_locations]
        ELSE [r |-> IF CacheHit(cache, CacheKey(user_location))
                    THEN [r1 EXCEPT
                            !.pc = "draft", !.user_location = user_location,
                            !.emergency_number =
                                FormatEmergencyNumbers(cache[CacheKey(user_location)]),
                            !.calls = r.calls \o stages \o <<"format_emergency_numbers">>]
                    ELSE [r1 EXCEPT
                            !.pc = "lookup", !.user_location = user_location,
                            !.calls = r.calls \o stages],
              user_locations |-> IF known = "" /\ detected # ""
                                 THEN Put(user_locations, r.session_id, detected)
                                 ELSE user_locations]

\* lines 747-766 up to the lookup call: the classifier verdict, the location,
\* and the cached numbers when the cache has them
Emergency(w, out) ==
    /\ req[w].pc = "emergency"
    /\ IF Uncaught("detect", out)
       THEN Fail500(w) /\ UNCHANGED <<user_locations, lookups>>
       ELSE LET step == EmergencyStep(req[w], out)
                cache_key == CacheKey(step.r.user_location)
            IN  /\ SetReq(w, step.r)
                /\ user_locations' = step.user_locations
                /\ lookups' = IF step.r.pc = "lookup"
                               THEN Put(lookups, cache_key, Get(lookups, cache_key, 0) + 1)
                               ELSE lookups
    /\ UNCHANGED <<max_length, histories, loop_tracker, cache, nreq, last, log>>

\* lines 548-600 and 765: the lookup call returns; its record is cached and formatted
Lookup(w, out) ==
    LET r == req[w]
        info == LookupInfo(out, r.user_location)
    IN  /\ r.pc = "lookup"
        /\ IF Uncaught("lookup", out)
           THEN Fail500(w) /\ UNCHANGED cache
           ELSE /\ cache' = Put(cache, CacheKey(r.user_location), info)
                /\ SetReq(w, [r EXCEPT
                       !.pc = "draft",
                       !.emergency_number = FormatEmergencyNumbers(info),
                       !.failed = IF out.kind = "object" THEN @ ELSE @ \cup {"lookup"},
                       !.calls = r.calls \o <<"lookup", "format_emergency_numbers">>])
        /\ UNCHANGED <<max_length, histories, loop_tracker, user_locations, nreq, last, log,
                       lookups>>

\* lines 768-779: the draft and the placeholder substitution
Draft(w, out) ==
    LET r == req[w]
        draft_reply == GenerateResponse(out, r.user_message)
    IN  /\ r.pc = "draft"
        /\ IF Uncaught("generate_response", out)
           THEN Fail500(w)
           ELSE SetReq(w, [r EXCEPT
                   !.pc = "refine",
                   !.raw_draft = draft_reply,
                   !.drafter_saw = DrafterHistory(histories, r.session_id, r.history),
                   !.draft_reply = SubstitutePlaceholder(draft_reply, r.emergency_number),
                   !.failed = IF out.kind = "text" THEN @ ELSE @ \cup {"generate_response"},
                   !.calls = Append(r.calls, "generate_response")])
        /\ UNCHANGED <<max_length, histories, loop_tracker, user_locations, cache,
                       nreq, last, log, lookups>>

\* lines 781-816: the refinement, the loop check, the final reply and the response
Refine(w, out) ==
    LET r == req[w]
        refined_reply == RefineReply(out, r.draft_reply)
        is_loop == DetectLoop(loop_tracker, r.session_id, refined_reply)
        final_reply == FinalReply(refined_reply, is_loop)
    IN  /\ r.pc = "refine"
        /\ IF Uncaught("refine", out)
           THEN Fail500(w) /\ UNCHANGED <<histories, loop_tracker, log>>
           ELSE /\ loop_tracker' = LoopTrackerAfter(loop_tracker, r.session_id, refined_reply)
                /\ histories' = AddMessage(histories, r.session_id, "assistant", final_reply)
                /\ Logged(r.session_id, Turn("assistant", final_reply))
                /\ SetReq(w, [r EXCEPT
                       !.pc = "done", !.refined_reply = refined_reply, !.is_loop = is_loop,
                       !.response = ChatResponse(final_reply, r.is_emergency,
                                                 r.emergency_type, r.pre_check_data, is_loop),
                       !.failed = IF out.kind = "text" THEN @ ELSE @ \cup {"refine"},
                       !.calls = r.calls \o <<"refine", "detect_loop", "add_message">>,
                       !.appended = Append(r.appended, Turn("assistant", final_reply))])
        /\ UNCHANGED <<max_length, user_locations, cache, nreq, last, lookups>>

\* None as a dictionary key (POST /chat/clear with session_id null)
NoneKey == "<None>"

\* data.get('session_id', 'default')
ClearSessionKey(d) ==
    LET v == Get(d, "session_id", JStr("default"))
    IN  IF v.t = "str" THEN v.s ELSE NoneKey

\* the session ids the server holds state for, and the stores holding one
KnownSessions == DOMAIN histories \cup DOMAIN loop_tracker \cup DOMAIN user_locations
StoresOf(sid) ==
    (IF sid \in DOMAIN histories THEN {"histories"} ELSE {})
        \cup (IF sid \in DOMAIN loop_tracker THEN {"loop_tracker"} ELSE {})
        \cup (IF sid \in DOMAIN user_locations THEN {"user_locations"} ELSE {})

\* a clear_session whose pops have no default: an unseen key raises KeyError
ClearRaisesOnUnseen(body, seen) ==
    \/ body.kind = "nonobject" /\ body.truthy
    \/ body.kind # "nonobject"
         /\ ClearSessionKey(IF body.kind = "object" THEN body.d ELSE EmptyDict) \notin seen

\* lines 684-688: whether the clear handler raises.  data.get raises on a JSON
\* value that is not an object (a falsy one is replaced by {}); the pops take
\* their default for a key that was never seen
ClearRaises(body, seen) == body.kind = "nonobject" /\ body.truthy

\* line 688: self.user_locations.pop(session_id, None)
ClearLocations(ul, sid) == Pop(ul, sid)

\* lines 680-695: POST /chat/clear
Clear(w, body) ==
    /\ ~Busy(w)
    /\ IF ClearRaises(body, KnownSessions)
       THEN \* the handler's except answers 500
            /\ SetReq(w, [IdleReq EXCEPT !.pc = "done", !.kind = "clear",
                                         !.body = body.kind,
                                         !.response = ClearError])
            /\ UNCHANGED <<histories, loop_tracker, user_locations, log>>
       ELSE LET d == IF body.kind = "object" THEN body.d ELSE EmptyDict
                session_id == ClearSessionKey(d)
            IN  /\ histories' = ClearHistories(histories, session_id)
                /\ log' = Pop(log, session_id)
                /\ loop_tracker' = ClearLoopTracker(loop_tracker, session_id)
                /\ user_locations' = ClearLocations(user_locations, session_id)
                /\ SetReq(w, [IdleReq EXCEPT !.pc = "done", !.kind = "clear",
                                             !.session_id = session_id,
                                             !.sid_field = Get(d, "session_id", [t |-> "absent"]),
                                             !.body = body.kind,
                                             !.known = StoresOf(session_id),
                                             !.response = Cleared(session_id)])
    /\ UNCHANGED <<max_length, cache, nreq, last, lookups>>

-----------------------------------------------------------------------------
(* The inputs of the server specifications *)

Msg(text, sid) == ObjectBody([k \in {"message", "session_id"} |->
                      IF k = "message" THEN JStr(text) ELSE JStr(sid)])

\* user messages: a location cue with a danger phrase; an exhaustion cue with a
\* grounding keyword in the fragment the fallback reflects
DangerMessage == "I am in Delhi. I will end it"
TiredMessage == "so tired, sit with me"
\* a later message of the same user that names another place
MovedMessage == "Now I am in Pune"

InvalidBodies ==
    {UnparseableBody, EmptyBody, NonObjectBody(FALSE), NonObjectBody(TRUE),
     ObjectBody(EmptyDict),
     ObjectBody([k \in {"message"} |-> JStr(" \n ")]),
     ObjectBody([k \in {"message"} |-> JNull])}
ChatBodies == InvalidBodies \cup {Msg(DangerMessage, "s1"), Msg(TiredMessage, "s1")}
ClearBodies == {ObjectBody([k \in {"session_id"} |-> JStr("s1")]), NonObjectBody(TRUE)}

RiskDict(level, type, block) ==
    [k \in DOMAIN SafeDefaults \ {"context_notes"} |->
        CASE k = "risk_level" -> JStr(level)
          [] k = "risk_type" -> JStr(type)
          [] k = "requires_intervention" -> JBool(TRUE)
          [] k = "intervention_type" -> JStr("grounding")
          [] k = "block_response" -> block]
PreCheckOutputs ==
    {Raised, NotJson, JsonArray, JsonObject(EmptyDict),
     JsonObject(RiskDict("high", "passive_ideation", JBool(FALSE))),
     JsonObject(RiskDict("critical", "explicit_danger", JBool(TRUE))),
     JsonObject(RiskDict("low", "none", JStr("false")))}

Verdict(is_emergency, type, confidence) ==
    JsonObject([k \in {"is_emergency", "emergency_type", "confidence"} |->
        CASE k = "is_emergency" -> JBool(is_emergency)
          [] k = "emergency_type" -> JStr(type)
          [] k = "confidence" -> JStr(confidence)])
EmergencyOutputs ==
    {Raised, NotJson, JsonArray,
     Verdict(TRUE, "suicide", "high"), Verdict(TRUE, "suicide", "low"),
     Verdict(FALSE, "none", "low")}

Numbers(medical, police, hotline) ==
    JsonObject([k \in {"medical", "police", "suicide_hotline"} |->
        CASE k = "medical" -> JStr(medical)
          [] k = "police" -> JStr(police)
          [] k = "suicide_hotline" -> JStr(hotline)])
LookupOutputs ==
    {Raised, JsonObject(EmptyDict), Numbers("108", "100", "not available"),
     Numbers("[EMERGENCY_NUMBER]", "", "not available")}

DraftOutputs ==
    {Raised, TextOut(" \n"),
     TextOut("Call [EMERGENCY_NUMBER] now: [EMERGENCY_NUMBER]")}

RefineOutputs ==
    {Raised, TextOut("Breathe slowly"),
     TextOut("Refined Reply: stay"), TextOut("refined reply: \"I hear you\"")}

-----------------------------------------------------------------------------
(* The server handling one request at a time *)

\* Config.MAX_HISTORY_LENGTH scaled down to MaxHmax
ServerInit == Init /\ max_length = MaxHmax

Next ==
    \/ \E body \in ChatBodies : Receive(1, body, MaxRequests)
    \/ \E out \in PreCheckOutputs : PreCheck(1, out)
    \/ \E out \in EmergencyOutputs : Emergency(1, out)
    \/ \E out \in LookupOutputs : Lookup(1, out)
    \/ \E out \in DraftOutputs : Draft(1, out)
    \/ \E out \in RefineOutputs : Refine(1, out)
    \/ \E body \in ClearBodies : Clear(1, body)

Spec == ServerInit /\ [][Next]_vars

-----------------------------------------------------------------------------
(* The server over several turns of one session, one request at a time,    *)
(* with one input per outcome of each stage                                *)

SeqPreCheckOutputs ==
    {Raised, JsonObject(RiskDict("critical", "explicit_danger", JBool(TRUE)))}
SeqEmergencyOutputs == {Raised, Verdict(TRUE, "suicide", "high")}
SeqDraftOutputs == {Raised, TextOut("Sit down and call [EMERGENCY_NUMBER]")}
SeqRefineOutputs ==
    {Raised, TextOut("Breathe slowly"), TextOut("refined reply: \"I hear you\"")}

SeqNext ==
    \/ Receive(1, Msg(TiredMessage, "s1"), MaxTurns)
    \/ \E out \in SeqPreCheckOutputs : PreCheck(1, out)
    \/ \E out \in SeqEmergencyOutputs : Emergency(1, out)
    \/ Lookup(1, Raised)
    \/ \E out \in SeqDraftOutputs : Draft(1, out)
    \/ \E out \in SeqRefineOutputs : Refine(1, out)
    \/ \E body \in ClearBodies : Clear(1, body)

SeqSpec == ServerInit /\ [][SeqNext]_vars

-----------------------------------------------------------------------------
(* The server over several emergency turns of one session, with every      *)
(* kind of POST /chat/clear body in between                                *)

ClrRefineOutputs == {Raised, TextOut("Breathe slowly")}
ClrClearBodies ==
    {ObjectBody([k \in {"session_id"} |-> JStr("s1")]),
     ObjectBody([k \in {"session_id"} |-> JStr("s2")]),
     ObjectBody([k \in {"session_id"} |-> JNull]),
     ObjectBody(EmptyDict), EmptyBody, UnparseableBody,
     NonObjectBody(FALSE), NonObjectBody(TRUE)}

ClrNext ==
    \/ Receive(1, Msg(DangerMessage, "s1"), MaxTurns)
    \/ PreCheck(1, Raised)
    \/ Emergency(1, Verdict(TRUE, "suicide", "high"))
    \/ Lookup(1, Raised)
    \/ Draft(1, Raised)
    \/ \E out \in ClrRefineOutputs : Refine(1, out)
    \/ \E body \in ClrClearBodies : Clear(1, body)

ClrSpec == ServerInit /\ [][ClrNext]_vars

-----------------------------------------------------------------------------
(* The server with two worker threads: Flask serves each request on its    *)
(* own thread and the handlers take no lock                                *)

ConcBodies == {Msg(TiredMessage, "s1"), Msg(DangerMessage, "s1")}

ConcNext ==
    \E w \in Workers :
        \/ \E body \in ConcBodies : Receive(w, body, MaxConc)
        \/ \E out \in SeqPreCheckOutputs : PreCheck(w, out)
        \/ Emergency(w, Raised)
        \/ Draft(w, Raised)
        \/ \E out \in ClrRefineOutputs : Refine(w, out)

ConcSpec == ServerInit /\ [][ConcNext]_vars

-----------------------------------------------------------------------------
(* Claims about ConversationHistory, checked under HistSpec and LoopSpec *)

\* C4: after N add_message calls on a session (any roles, any max_length >= 1)
\* its history has exactly min(N, max_length) turns, and they are the most
\* recently appended ones in the order they were appended.
C4_HistoryIsNewestTurns ==
    \A sid \in Sessions :
        LET appended == Get(log, sid, <<>>)
            N == Len(appended)
            kept == GetHistory(histories, sid)
        IN  /\ Len(kept) = IF N < max_length THEN N ELSE max_length
            /\ \A i \in 1..Len(kept) : kept[i] = appended[N - Len(kept) + i]

\* C4 witness: more turns were appended than fit, with both roles among them,
\* and more than one turn is kept
C4_Witness ==
    LET appended == Get(log, TestSession, <<>>)
    IN  /\ max_length >= 2
        /\ Len(appended) >= max_length + 2
        /\ \E i, j \in DOMAIN appended : appended[i].role # appended[j].role
        /\ Len(GetHistory(histories, TestSession)) = max_length

\* C5: detect_loop returns true exactly when the new reply has a grounding keyword
\* and at least 2 of the last 3 window entries have one; on true the window is
\* unchanged, on false the reply is the newest entry; so from an empty window two
\* grounding replies return false and are both kept, and a third returns true.
C5_DetectLoopContract ==
    last.op = "detect_loop" =>
        LET w0 == last.before
            w1 == Get(loop_tracker, last.sid, <<>>)
            twoOfThree == \E i, j \in {k \in DOMAIN w0 : k > Len(w0) - 3} :
                             i # j /\ HasGrounding(w0[i]) /\ HasGrounding(w0[j])
        IN  /\ last.result <=> (HasGrounding(last.arg) /\ twoOfThree)
            /\ last.result => w1 = w0
            /\ ~last.result =>
                  /\ Len(w1) >= 1 /\ w1[Len(w1)] = last.arg
                  /\ \A i \in 1..(Len(w1) - 1) : w1[i] = w0[Len(w0) - (Len(w1) - 1) + i]
            /\ (HasGrounding(last.arg) /\ w0 = <<>>) =>
                  ~last.result /\ w1 = <<last.arg>>
            /\ (HasGrounding(last.arg) /\ Len(w0) = 1 /\ HasGrounding(w0[1])) =>
                  ~last.result /\ w1 = <<w0[1], last.arg>>
            /\ (HasGrounding(last.arg) /\ Len(w0) = 2
                    /\ HasGrounding(w0[1]) /\ HasGrounding(w0[2])) => last.result

\* C5 witness: the third of three consecutive grounding replies is declared a loop
C5_Witness ==
    /\ last.op = "detect_loop"
    /\ last.result
    /\ Len(last.before) = 2
    /\ HasGrounding(last.before[1]) /\ HasGrounding(last.before[2])
    /\ loop_tracker[last.sid] = last.before

-----------------------------------------------------------------------------
(* Claims about POST /chat, checked under Spec, SeqSpec and ConcSpec *)

\* a POST /chat that has been answered, and one that has been answered 200
Answered(w) == req[w].kind = "chat" /\ req[w].pc = "done"
Delivered(w) == Answered(w) /\ req[w].response.status = 200

\* C1: when the pre-screen's block_response is true no later stage runs (no
\* detect, no location or contact resolution, no draft, no refine, no
\* detect_loop), the loop window, the locations and the contact cache are left
\* as they were, and the response is 200 with the fixed crisis reply,
\* is_emergency true, emergency_type "critical", pre_check_intervention true.
C1_BlockShortCircuits ==
    /\ [](\A w \in Workers :
            (/\ req[w].kind = "chat"
             /\ req[w].pc \notin {"idle", "precheck"}
             /\ req[w].pre_check_data.block_response = JBool(TRUE)) =>
                /\ req[w].pc = "done"
                /\ req[w].calls = <<"add_message", "analyze", "add_message">>
                /\ req[w].response.status = 200
                /\ req[w].response.reply = CrisisReply
                /\ req[w].response.is_emergency = TRUE
                /\ req[w].response.emergency_type = JStr("critical")
                /\ req[w].response.pre_check_intervention = TRUE)
    /\ [][\A w \in Workers :
            (/\ req[w].pc = "precheck"
             /\ req'[w].pc # "precheck"
             /\ req'[w].pre_check_data.block_response = JBool(TRUE)) =>
                /\ loop_tracker' = loop_tracker
                /\ user_locations' = user_locations
                /\ cache' = cache]_vars

\* C1 witness: a request blocked by a pre-screen answer of block_response = true
\* has been answered
C1_Witness ==
    \E w \in Workers :
        /\ Delivered(w)
        /\ req[w].pre_check_data.block_response = JBool(TRUE)
        /\ req[w].response.reply = CrisisReply
        /\ "analyze" \notin req[w].failed

\* the stage that follows each stage when its model call fails
AfterFailure ==
    [precheck |-> "emergency", emergency |-> "draft", lookup |-> "draft",
     draft |-> "refine", refine |-> "done"]

\* C2: with a non-empty message, whatever combination of the pre-screen, the
\* classifier, the lookup, the drafter and the refiner fails (by raising or by
\* unusable output), the request is never answered 500, a failing stage does
\* not end the request but hands it to the next stage (the refiner, the last
\* stage, to the answer), and the answer is a 200 with a reply.
C2_FailuresStillAnswer ==
    /\ [](\A w \in Workers :
            (Answered(w) /\ req[w].user_message # "") =>
               /\ req[w].response.status = 200
               /\ "reply" \in DOMAIN req[w].response
               /\ req[w].appended[Len(req[w].appended)]
                    = Turn("assistant", req[w].response.reply))
    /\ [][\A w \in Workers :
            (Busy(w) /\ req'[w].failed # req[w].failed) =>
               /\ req'[w].pc = AfterFailure[req[w].pc]
               /\ req'[w].response.status \in {0, 200}]_vars

\* C2 witness: a request whose pre-screen, lookup, drafter and refiner all
\* failed has been answered 200
C2_Witness ==
    \E w \in Workers :
        /\ Delivered(w)
        /\ req[w].failed = {"analyze", "lookup", "generate_response", "refine"}
        /\ req[w].is_emergency

\* C3: when detect_loop declares a loop for the refined reply, the response has
\* loop_detected true and the fixed pattern-breaking text as its reply, and
\* that text, not the refined reply, is the assistant turn appended to the
\* history; and the third of three requests in a row to one session whose
\* refined replies all have a grounding keyword has loop_detected true.
C3_LoopOverride ==
    \A w \in Workers :
        LET r == req[w]
            turns == Get(log, r.session_id, <<>>)
            n == Len(turns)
            kept == GetHistory(histories, r.session_id)
            fixed == "Let's try something different. What's one thing you could do right now, just for the next five minutes?"
            \* a delivered reply whose refined reply had a grounding keyword: the
            \* refined reply itself, or the fixed text that replaced it
            grounded(t) == t.role = "assistant"
                           /\ (HasGrounding(t.content) \/ t.content = fixed)
        IN  (Delivered(w) /\ "loop_detected" \in DOMAIN r.response) =>
               /\ r.response.loop_detected = r.is_loop
               /\ r.is_loop =>
                     /\ HasGrounding(r.refined_reply)
                     /\ r.response.reply = fixed
                     /\ r.response.reply # r.refined_reply
                     /\ kept[Len(kept)] = Turn("assistant", fixed)
                     /\ turns[n] = Turn("assistant", fixed)
               /\ (/\ n >= 6
                   /\ grounded(turns[n - 4])
                   /\ grounded(turns[n - 2])
                   /\ HasGrounding(r.refined_reply)) => r.response.loop_detected

\* C3 witness: the third request in a row with a grounding refined reply has
\* been answered with the fixed text, after two that were answered as refined
C3_Witness ==
    \E w \in Workers :
        LET r == req[w]
            turns == Get(log, r.session_id, <<>>)
        IN  /\ Delivered(w)
            /\ r.is_loop
            /\ Len(turns) = 6
            /\ HasGrounding(turns[2].content) /\ HasGrounding(turns[4].content)
            /\ HasGrounding(r.refined_reply)
            /\ r.response.reply = LoopBreakReply
            /\ loop_tracker[r.session_id] = <<turns[2].content, turns[4].content>>

\* C6: a request answered 200, on the blocked path, the loop override or the
\* normal path, has appended exactly two turns: its user turn and then one
\* assistant turn whose content is the reply of the response; they are the
\* newest two turns of the session.
C6_OneAssistantTurn ==
    \A w \in Workers :
        LET r == req[w]
            turns == Get(log, r.session_id, <<>>)
            n == Len(turns)
            kept == GetHistory(histories, r.session_id)
            k == Len(kept)
        IN  Delivered(w) =>
               /\ r.appended = <<Turn("user", r.user_message),
                                 Turn("assistant", r.response.reply)>>
               /\ n >= 2 /\ SubSeq(turns, n - 1, n) = r.appended
               /\ k >= 1 /\ kept[k] = Turn("assistant", r.response.reply)
               /\ k >= 2 => kept[k - 1] = Turn("user", r.user_message)

\* C6 witness: a request answered by the loop override, in a session with more
\* turns than the history keeps
C6_Witness ==
    \E w \in Workers :
        /\ Delivered(w)
        /\ req[w].is_loop
        /\ req[w].appended[2].content = LoopBreakReply
        /\ Len(Get(log, req[w].session_id, <<>>)) > max_length

\* C7 (as stated): two requests handled concurrently for one session are
\* serialized: once both are answered, the history, the loop window and both
\* loop verdicts are those of the two requests run one after the other in
\* some order, so the turns of one are not interleaved with the other's.
C7_SameSessionSerialized ==
    LET \* what a request does to the session when it runs alone
        Alone(hs, lt, r) ==
            LET withUser == AddMessage(hs, r.session_id, "user", r.user_message)
                is_loop == DetectLoop(lt, r.session_id, r.refined_reply)
            IN  IF Blocks(r.pre_check_data)
                THEN [histories |-> AddMessage(withUser, r.session_id,
                                               "assistant", CrisisReply),
                      loop_tracker |-> lt, is_loop |-> FALSE]
                ELSE [histories |-> AddMessage(withUser, r.session_id, "assistant",
                                               FinalReply(r.refined_reply, is_loop)),
                      loop_tracker |-> LoopTrackerAfter(lt, r.session_id, r.refined_reply),
                      is_loop |-> is_loop]
        Serial(first, second) ==
            LET one == Alone(EmptyDict, EmptyDict, req[first])
                two == Alone(one.histories, one.loop_tracker, req[second])
            IN  /\ histories = two.histories
                /\ loop_tracker = two.loop_tracker
                /\ req[first].is_loop = one.is_loop
                /\ req[second].is_loop = two.is_loop
    IN  (/\ \A w \in Workers : Delivered(w)
         /\ req[1].session_id = req[2].session_id) =>
            (Serial(1, 2) \/ Serial(2, 1))

\* C8 (as stated): a POST /chat without a usable message is answered 400 "No
\* message provided" with no stage invoked and no turn appended.
C8_MissingMessageRejected ==
    \A w \in Workers :
        (Answered(w) /\ req[w].user_message = "") =>
            /\ req[w].response = [status |-> 400, error |-> "No message provided"]
            /\ req[w].calls = <<>>
            /\ req[w].appended = <<>>

\* classifier outputs that say emergency without high or medium confidence
LowConfidencePositives ==
    {Verdict(TRUE, t, c) : t \in {"suicide", "medical"}, c \in {"low", "unsure", ""}}
        \cup {JsonObject([k \in {"is_emergency"} |-> JBool(TRUE)])}

\* C9: a classifier output with is_emergency true and a confidence other than
\* high or medium leaves the request and the server exactly as the output
\* is_emergency false does, and downstream of it there is no location, no
\* lookup, no substitution, is_emergency false and emergency_type "none" in
\* the request (what the refiner is told) and in the response.
C9_LowConfidenceIsNegative ==
    \A w \in Workers :
        LET r == req[w]
            plain(step) == [step EXCEPT !.r.gated = FALSE]
        IN  /\ r.pc = "emergency" =>
                  \A out \in LowConfidencePositives :
                      /\ plain(EmergencyStep(r, out))
                           = plain(EmergencyStep(r, Verdict(FALSE, "none", "low")))
                      /\ EmergencyStep(r, out).r.pc = "draft"
                      /\ EmergencyStep(r, out).user_locations = user_locations
            /\ (r.kind = "chat" /\ r.gated) =>
                  /\ r.is_emergency = FALSE
                  /\ r.emergency_type = JStr("none")
                  /\ r.user_location = "" /\ r.emergency_number = ""
                  /\ \A i \in DOMAIN r.calls :
                        r.calls[i] \notin {"detect_user_location", "get_emergency_info",
                                           "lookup", "format_emergency_numbers"}
                  /\ r.pc \in {"draft", "refine", "done"}
                  /\ r.pc \in {"refine", "done"} => r.draft_reply = r.raw_draft
                  /\ r.pc = "done" =>
                        /\ r.response.is_emergency = FALSE
                        /\ r.response.emergency_type = JStr("none")

\* C9 witness: a request whose classifier said emergency with low confidence
\* has been answered, its draft still carrying the placeholder
C9_Witness ==
    \E w \in Workers :
        /\ Delivered(w)
        /\ req[w].gated
        /\ Contains(req[w].draft_reply, EmergencyToken)
        /\ req[w].response.is_emergency = FALSE

-----------------------------------------------------------------------------
(* Claims about POST /chat/clear and the ConversationHistory accessors *)

\* a POST /chat/clear that has been answered 200
ClearedBy(w) ==
    req[w].kind = "clear" /\ req[w].pc = "done" /\ req[w].response.status = 200

\* C11: a clear removes the session's history, loop window and location and
\* nothing else, so that afterwards get_history is empty and detect_loop
\* starts from an empty window; clearing again changes nothing; and clearing
\* a session id that was never seen is answered without error and changes no
\* state.
C11_ClearRemovesSession ==
    /\ [](\A w \in Workers :
            ClearedBy(w) =>
               LET sid == req[w].session_id
               IN  /\ sid \notin KnownSessions
                   /\ GetHistory(histories, sid) = <<>>
                   /\ \A r \in TestReplies :
                         /\ ~DetectLoop(loop_tracker, sid, r)
                         /\ LoopTrackerAfter(loop_tracker, sid, r)[sid] = <<r>>
                   /\ ClearHistories(histories, sid) = histories
                   /\ ClearLoopTracker(loop_tracker, sid) = loop_tracker
                   /\ ClearLocations(user_locations, sid) = user_locations)
    /\ [][\A w \in Workers :
            (req'[w].kind = "clear" /\ req'[w].body # "nonobject") =>
               LET sid == req'[w].session_id
                   Without(d) == [k \in DOMAIN d \ {sid} |-> d[k]]
               IN  /\ req'[w].response.status = 200
                   /\ histories' = Without(histories)
                   /\ loop_tracker' = Without(loop_tracker)
                   /\ user_locations' = Without(user_locations)
                   /\ cache' = cache
                   /\ sid \notin KnownSessions =>
                         /\ histories' = histories
                         /\ loop_tracker' = loop_tracker
                         /\ user_locations' = user_locations]_vars

\* C11 witness: a session that had a history, a loop window and a location
\* has been cleared
C11_Witness ==
    \E w \in Workers :
        /\ ClearedBy(w)
        /\ req[w].session_id = "s1"
        /\ req[w].known = {"histories", "loop_tracker", "user_locations"}
        /\ cache # EmptyDict

\* C12: a POST /chat/clear whose body names a session the server holds
\* nothing for is answered as for a session it holds: 200, status "cleared"
\* and the session id of the request, never an error.
C12_ClearUnknownSameAnswer ==
    \A w \in Workers :
        (req[w].kind = "clear" /\ req[w].pc = "done" /\ req[w].body # "nonobject") =>
            /\ req[w].response =
                 [status |-> 200, state |-> "cleared", session_id |-> req[w].session_id]
            /\ req[w].session_id \in {"s1", "s2", "default", NoneKey}

\* C12 witness: a clear for a session the server holds nothing for has been
\* answered 200 while another session has a history
C12_Witness ==
    \E w \in Workers :
        /\ ClearedBy(w)
        /\ req[w].session_id = "s2"
        /\ req[w].known = {}
        /\ "s1" \in DOMAIN histories

\* C13 (as stated): for every limit >= 0 the text get_recent_context returns
\* is made of turns among the limit most recent ones, oldest first, with no
\* turn older than the limit-th most recent, and the call leaves the history
\* and the loop window as they were.
C13_ContextWithinLimit ==
    last.op = "get_recent_context" =>
        LET h == last.before
            n == Len(h)
            k == IF last.arg < n THEN last.arg ELSE n
        IN  /\ \E j \in 0..k : last.result = ContextOf(SubSeq(h, n - j + 1, n))
            /\ GetHistory(histories, last.sid) = h
            /\ (h = <<>>) => last.sid \notin DOMAIN histories

-----------------------------------------------------------------------------
(* Claims about the fail-open components *)

\* outputs of a JSON-producing model call that the component cannot use
Unusable == {Raised, NotJson, JsonArray}

\* C14: analyze never raises; when its model call raises or gives output that
\* is not a JSON object it returns the all-safe assessment (risk_level none,
\* risk_type none, requires_intervention false, intervention_type none,
\* block_response false), so the request is not blocked and goes on to the
\* emergency classifier.
C14_AnalyzeFailsOpen ==
    /\ \A out \in Unusable :
          /\ ~Uncaught("analyze", out)
          /\ Analyze(out).risk_level = JStr("none")
          /\ Analyze(out).risk_type = JStr("none")
          /\ Analyze(out).requires_intervention = JBool(FALSE)
          /\ Analyze(out).intervention_type = JStr("none")
          /\ Analyze(out).block_response = JBool(FALSE)
    /\ \A w \in Workers :
          LET r == req[w]
          IN  (r.kind = "chat" /\ "analyze" \in r.failed) =>
                 /\ r.pre_check_data.risk_level = JStr("none")
                 /\ r.pre_check_data.block_response = JBool(FALSE)
                 /\ r.pc \in {"emergency", "lookup", "draft", "refine", "done"}
                 /\ r.calls[2] = "analyze"
                 /\ r.pc # "emergency" => r.calls[3] = "detect"
                 /\ r.response.status \in {0, 200}
                 /\ "pre_check_intervention" \notin DOMAIN r.response

\* C14 witness: a request whose pre-screen call failed is waiting for the
\* emergency classifier
C14_Witness ==
    \E w \in Workers :
        /\ req[w].pc = "emergency"
        /\ "analyze" \in req[w].failed
        /\ req[w].calls = <<"add_message", "analyze">>

\* C15: detect never raises; when its model call raises or gives unusable
\* output it returns (false, "none", "low"); and whenever it returns
\* is_emergency false its emergency_type is "none".
C15_DetectFailsOpen ==
    /\ \A out \in Unusable :
          /\ ~Uncaught("detect", out)
          /\ Detect(out) = [is_emergency |-> FALSE, emergency_type |-> JStr("none"),
                            confidence |-> JStr("low")]
    /\ \A out \in EmergencyOutputs \cup LowConfidencePositives
                    \cup {Verdict(FALSE, "medical", c) : c \in {"high", "low"}} :
          ~Detect(out).is_emergency => Detect(out).emergency_type = JStr("none")
    /\ \A w \in Workers :
          LET r == req[w]
          IN  /\ (r.kind = "chat" /\ "detect" \in r.failed) =>
                    /\ ~r.is_emergency
                    /\ r.pc \in {"draft", "refine", "done"}
                    /\ r.response.status \in {0, 200}
              /\ (r.kind = "chat" /\ ~r.is_emergency) => r.emergency_type = JStr("none")
              /\ (Delivered(w) /\ "loop_detected" \in DOMAIN r.response
                    /\ ~r.response.is_emergency) =>
                    r.response.emergency_type = JStr("none")

\* C15 witness: a request whose classifier call failed has been answered as
\* no emergency
C15_Witness ==
    \E w \in Workers :
        /\ Delivered(w)
        /\ "detect" \in req[w].failed
        /\ req[w].response.is_emergency = FALSE
        /\ req[w].response.emergency_type = JStr("none")

\* C16: when the refiner's call fails, refine returns the draft it was given
\* (the draft after the placeholder substitution), the loop guard then
\* examines that draft, and unless it declares a loop the draft is the reply
\* of the response, the assistant turn stored in the history and the newest
\* entry of the loop window.
C16_RefineFailureKeepsDraft ==
    /\ ~Uncaught("refine", Raised)
    /\ \A draft \in {"", UrgentLine, "Sit down and call 108 (ambulance)"} :
          RefineReply(Raised, draft) = draft
    /\ \A w \in Workers :
          LET r == req[w]
              kept == GetHistory(histories, r.session_id)
              window == Get(loop_tracker, r.session_id, <<>>)
          IN  (r.kind = "chat" /\ "refine" \in r.failed) =>
                 /\ Delivered(w)
                 /\ r.refined_reply = r.draft_reply
                 /\ SubSeq(r.calls, Len(r.calls) - 2, Len(r.calls))
                      = <<"refine", "detect_loop", "add_message">>
                 /\ r.response.loop_detected = r.is_loop
                 /\ ~r.is_loop =>
                       /\ r.response.reply = r.draft_reply
                       /\ kept[Len(kept)] = Turn("assistant", r.draft_reply)
                       /\ window # <<>> /\ window[Len(window)] = r.draft_reply
                 /\ r.is_loop =>
                       /\ HasGrounding(r.draft_reply)
                       /\ r.response.reply = LoopBreakReply

\* C16 witness: an emergency turn whose draft had the placeholder replaced and
\* whose refiner failed has been answered with that draft
C16_Witness ==
    \E w \in Workers :
        /\ Delivered(w)
        /\ "refine" \in req[w].failed
        /\ req[w].is_emergency
        /\ Contains(req[w].raw_draft, EmergencyToken)
        /\ ~Contains(req[w].draft_reply, EmergencyToken)
        /\ ~req[w].is_loop
        /\ req[w].response.reply = req[w].draft_reply

\* C17 (as stated): generate_response always yields a non-empty draft: when
\* the persona call raises or returns unusable text the draft is the local
\* fallback's reply, which is never empty.
C17_DraftNeverEmpty ==
    /\ \A message \in {DangerMessage, TiredMessage, "hi", " "} :
          /\ RuleBasedResponse(message) # ""
          /\ GenerateResponse(Raised, message) = RuleBasedResponse(message)
    /\ \A w \in Workers :
          (req[w].kind = "chat" /\ req[w].pc \in {"refine", "done"}
             /\ \E i \in DOMAIN req[w].calls : req[w].calls[i] = "generate_response") =>
                /\ req[w].raw_draft # ""
                /\ req[w].draft_reply # ""

-----------------------------------------------------------------------------
(* The server over several turns of two sessions, one with a location and   *)
(* one without, with a lookup model that fails or answers                   *)

CacheBodies ==
    {Msg(DangerMessage, "s1"), Msg(MovedMessage, "s1"), Msg(TiredMessage, "s2")}
CacheLookupOutputs == {Raised, Numbers("108", "100", "not available")}

CacheNext ==
    \/ \E body \in CacheBodies : Receive(1, body, MaxTurns)
    \/ PreCheck(1, Raised)
    \/ \E out \in SeqEmergencyOutputs : Emergency(1, out)
    \/ \E out \in CacheLookupOutputs : Lookup(1, out)
    \/ Draft(1, Raised)
    \/ Refine(1, Raised)
    \/ Clear(1, ObjectBody([k \in {"session_id"} |-> JStr("s1")]))

CacheSpec == ServerInit /\ [][CacheNext]_vars

-----------------------------------------------------------------------------
(* Claims about the emergency number cache, checked under CacheSpec *)

\* C18: with requests handled one after another, the lookup model is called at
\* most once per cache key over the life of the process: a call is made only
\* for a key the cache does not hold, the first call's result is cached (the
\* static fallback record when the call failed), no cache entry is ever
\* changed or removed (not by POST /chat/clear either), and a later emergency
\* turn with the same key gets the cached record without a call.
C18_LookupOncePerKey ==
    /\ [](/\ \A k \in DOMAIN lookups : lookups[k] <= 1
          /\ \A k \in DOMAIN cache : Get(lookups, k, 0) = 1
          /\ req[1].pc = "lookup" => ~HasKey(cache, CacheKey(req[1].user_location)))
    /\ [][LET r == req[1]
              r2 == req'[1]
              cache_key == CacheKey(r2.user_location)
          IN  /\ \A k \in DOMAIN cache : HasKey(cache', k) /\ cache'[k] = cache[k]
              /\ (r.pc = "lookup" /\ r2.pc = "draft") =>
                    /\ HasKey(cache', cache_key)
                    /\ cache'[cache_key] \in
                          {DefaultInfo(r.user_location)}
                              \cup {out.d : out \in CacheLookupOutputs \ {Raised}}
                    /\ "lookup" \in r2.failed =>
                          cache'[cache_key] = DefaultInfo(r.user_location)
                    /\ r2.emergency_number = FormatEmergencyNumbers(cache'[cache_key])
              /\ (r.pc = "emergency" /\ r2.pc = "draft" /\ r2.is_emergency) =>
                    /\ HasKey(cache, cache_key)
                    /\ lookups' = lookups
                    /\ \A i \in DOMAIN r2.calls : r2.calls[i] # "lookup"
                    /\ r2.emergency_number = FormatEmergencyNumbers(cache[cache_key])]_vars

\* a later emergency turn of the session in Delhi is answered from the cache,
\* which holds the fallback record of the failed first lookup
C18_Witness ==
    /\ nreq >= 2
    /\ req[1].pc = "done" /\ req[1].kind = "chat" /\ req[1].is_emergency
    /\ req[1].user_location = "Delhi"
    /\ \A i \in DOMAIN req[1].calls : req[1].calls[i] # "lookup"
    /\ Get(lookups, "Delhi", 0) = 1
    /\ HasKey(cache, "Delhi") /\ cache["Delhi"] = DefaultInfo("Delhi")
    /\ req[1].emergency_number = "102 or 108 (ambulance) or 100 (police) or AASRA 9820466726 (crisis line)"

-----------------------------------------------------------------------------
(* Claims about what a request leaves behind and what it reads *)

\* C19: a POST /chat that has passed validation and has not reached its final
\* reply (it is between two stages, where an abort leaves it, or it ended in
\* the 500 of the outer except) has left the history of its session exactly
\* as it was when the request arrived.
C19_NothingCommittedBeforeFinalized ==
    \A w \in Workers :
        (/\ req[w].kind = "chat"
         /\ req[w].calls # <<>>
         /\ \/ Busy(w)
            \/ req[w].pc = "done" /\ req[w].response = ServerError) =>
              GetHistory(histories, req[w].session_id) = req[w].before

\* a chat body with a history field
MsgWithHistory(text, sid, history) ==
    ObjectBody([k \in {"message", "session_id", "history"} |->
        CASE k = "message" -> JStr(text)
          [] k = "session_id" -> JStr(sid)
          [] k = "history" -> history])

\* the same body without its history field
DropHistory(body) ==
    ObjectBody([k \in DOMAIN body.d \ {"history"} |-> body.d[k]])

-----------------------------------------------------------------------------
(* The server over several turns of one session whose bodies carry no      *)
(* history, an empty one, or one that names a location                      *)

FieldBodies ==
    {Msg(TiredMessage, "s1"),
     MsgWithHistory(TiredMessage, "s1", JList(<<>>)),
     MsgWithHistory(TiredMessage, "s1", JList(<<Turn("user", DangerMessage)>>))}

FieldNext ==
    \/ \E body \in FieldBodies : Receive(1, body, MaxTurns)
    \/ PreCheck(1, Raised)
    \/ \E out \in SeqEmergencyOutputs : Emergency(1, out)
    \/ Lookup(1, Raised)
    \/ \E out \in SeqDraftOutputs : Draft(1, out)
    \/ Refine(1, Raised)

FieldSpec == ServerInit /\ [][FieldNext]_vars

\* the history of the request's session once its user turn is appended
ServerSideHistory(r) ==
    LET h == Append(r.before, Turn("user", r.user_message))
    IN  IF Len(h) > max_length THEN PyLast(h, max_length) ELSE h

\* C20: the history field of a POST /chat body is ignored.  A body and the
\* same body without its history field give the same message and session id,
\* and the reception step leaves the state those two alone determine (only
\* the handler's unused local differs); the classifiers' context and the
\* history passed to the drafter are the server-side history of the session,
\* and the location used for the contacts is the one the server holds.
C20_HistoryFieldIgnored ==
    /\ [](/\ \A body \in FieldBodies :
                /\ MessageOf(body.d) = MessageOf(DropHistory(body).d)
                /\ ChatSessionKey(body.d) = ChatSessionKey(DropHistory(body).d)
          /\ LET r == req[1]
             IN  (r.kind = "chat" /\ r.calls # <<>>) =>
                    /\ r.recent_context =
                          ContextOf(PyLast(ServerSideHistory(r), CONTEXT_WINDOW_SIZE))
                    /\ (\E i \in DOMAIN r.calls : r.calls[i] = "generate_response") =>
                          r.drafter_saw = ServerSideHistory(r)
                    /\ (r.is_emergency /\ r.pc \in {"lookup", "draft", "refine", "done"}) =>
                          r.user_location = Get(user_locations, r.session_id, ""))
    /\ [][\A body \in FieldBodies :
            Receive(1, body, MaxTurns) =>
                LET plain == DropHistory(body).d
                    session_id == ChatSessionKey(plain)
                    user_message == MessageOf(plain)
                IN  /\ histories' = AddMessage(histories, session_id, "user", user_message)
                    /\ UNCHANGED <<loop_tracker, user_locations, cache>>
                    /\ [req'[1] EXCEPT !.history = <<>>] =
                          [IdleReq EXCEPT
                              !.pc = "precheck", !.kind = "chat",
                              !.session_id = session_id,
                              !.sid_field = Get(plain, "session_id", [t |-> "absent"]),
                              !.user_message = user_message,
                              !.before = GetHistory(histories, session_id),
                              !.recent_context =
                                  GetRecentContext(histories', session_id, CONTEXT_WINDOW_SIZE),
                              !.calls = <<"add_message">>,
                              !.appended = <<Turn("user", user_message)>>]]_vars

\* an emergency turn whose body carried a history naming Delhi was answered
\* with the contacts of no location, and its drafter saw the server-side turn
C20_Witness ==
    /\ req[1].pc = "done" /\ req[1].kind = "chat" /\ req[1].response.status = 200
    /\ req[1].history = <<Turn("user", DangerMessage)>>
    /\ DetectUserLocation(req[1].history) = "Delhi"
    /\ req[1].is_emergency /\ req[1].user_location = ""
    /\ req[1].drafter_saw = <<Turn("user", TiredMessage)>>
    /\ req[1].response.reply =
          "Sit down and call 102 or 108 (ambulance) or 100 (police) or AASRA 9820466726 (crisis line)"

-----------------------------------------------------------------------------
(* Claims about the loop window *)

\* C21: the loop window of every session holds at most 5 entries in every
\* reachable state; an append to a full window evicts its oldest entry and
\* keeps the others in their order, followed by the new reply.
C21_LoopWindowBounded ==
    /\ [](\A sid \in DOMAIN loop_tracker : Len(loop_tracker[sid]) <= LoopWindowMax)
    /\ [][(last'.op = "detect_loop" /\ ~last'.result
              /\ Len(last'.before) = LoopWindowMax) =>
                loop_tracker'[last'.sid] = Append(Tail(last'.before), last'.arg)]_vars

\* an append to a window of five entries has evicted the oldest one
C21_Witness ==
    /\ last.op = "detect_loop" /\ ~last.result
    /\ Len(last.before) = LoopWindowMax
    /\ last.before[1] # last.before[2]
    /\ Len(loop_tracker[last.sid]) = LoopWindowMax
    /\ loop_tracker[last.sid][1] = last.before[2]
    /\ loop_tracker[last.sid][LoopWindowMax] = last.arg

\* the assistant replies delivered on a session since it was created or cleared
DeliveredReplies(sid) ==
    LET turns == SelectSeq(Get(log, sid, <<>>), LAMBDA turn : turn.role = "assistant")
    IN  [i \in DOMAIN turns |-> turns[i].content]
\* those of them that are refined replies detect_loop did not reject: neither
\* the crisis reply of a blocked turn nor the pattern-breaking reply of a loop
AcceptedReplies(sid) ==
    LET turns == SelectSeq(Get(log, sid, <<>>),
                           LAMBDA turn : /\ turn.role = "assistant"
                                         /\ turn.content \notin {CrisisReply, LoopBreakReply})
    IN  [i \in DOMAIN turns |-> turns[i].content]

-----------------------------------------------------------------------------
(* Claims about the order of the stages *)

\* the calls of a turn that is not blocked, in the order of the handler: the
\* location is detected only when the session has none, the lookup model is
\* called only when the cache has no entry
StageOrders(is_emergency) ==
    {<<"add_message", "analyze", "detect">> \o contacts
        \o <<"generate_response", "refine", "detect_loop", "add_message">> :
     contacts \in
        IF is_emergency
        THEN {location \o <<"get_emergency_info">> \o lookup \o <<"format_emergency_numbers">> :
                 location \in {<<>>, <<"detect_user_location">>},
                 lookup \in {<<>>, <<"lookup">>}}
        ELSE {<<>>}}

\* C23: an accepted message that is not blocked runs its stages once each in
\* the order user turn, pre-screen, classifier, (location and contacts, only
\* in an emergency), drafter, substitution, refiner, loop guard, assistant
\* turn, response: at every moment the calls made so far are the beginning of
\* that order, a step only adds calls, the draft given to the refiner is the
\* substituted one, and the answered request has made all of them and appended
\* the user turn and the delivered reply.  The blocked answer is given only by
\* the step that leaves the pre-screen, after which the only call is the
\* append of the crisis reply.
C23_StagesInOrder ==
    /\ [](LET r == req[1]
              blocked == r.pc = "done" /\ "pre_check_intervention" \in DOMAIN r.response
          IN  (r.kind = "chat" /\ r.calls # <<>>) =>
                /\ blocked => r.calls = <<"add_message", "analyze", "add_message">>
                /\ ~blocked =>
                     /\ \E is_emergency \in BOOLEAN : \E order \in StageOrders(is_emergency) :
                           /\ Len(r.calls) <= Len(order)
                           /\ SubSeq(order, 1, Len(r.calls)) = r.calls
                           /\ Len(r.calls) > 3 => is_emergency = r.is_emergency
                           /\ r.pc = "done" <=> r.calls = order
                     /\ r.pc \in {"refine", "done"} =>
                           r.draft_reply = SubstitutePlaceholder(r.raw_draft, r.emergency_number)
                     /\ r.pc = "done" =>
                           /\ r.response.status = 200
                           /\ r.appended = <<Turn("user", r.user_message),
                                             Turn("assistant", r.response.reply)>>)
    /\ [][LET r == req[1]
              r2 == req'[1]
          IN  /\ (Busy(1) /\ r2 # r) =>
                    /\ Len(r2.calls) > Len(r.calls)
                    /\ SubSeq(r2.calls, 1, Len(r.calls)) = r.calls
              /\ (r2 # r /\ r2.kind = "chat" /\ "pre_check_intervention" \in DOMAIN r2.response) =>
                    r.pc = "precheck"]_vars

\* an emergency turn answered from the cache and a turn without an emergency
\* have both run to their end on one session
C23_Witness ==
    /\ req[1].pc = "done" /\ req[1].kind = "chat" /\ ~req[1].is_emergency
    /\ req[1].calls = <<"add_message", "analyze", "detect",
                        "generate_response", "refine", "detect_loop", "add_message">>
    /\ HasKey(cache, "default")
    /\ Len(Get(log, "s1", <<>>)) = 6

-----------------------------------------------------------------------------
(* Claims about the location and the contacts *)

\* C24: the location and the contacts are resolved only in turns where an
\* emergency was detected: no step of a POST /chat whose verdict is not an
\* emergency changes the known locations or the contact cache or calls the
\* lookup model, and such a request makes none of the resolution calls and
\* carries no location and no contact string.
C24_ContactsOnlyInEmergency ==
    /\ [](LET r == req[1]
          IN  (r.kind = "chat" /\ ~r.is_emergency) =>
                /\ r.pc # "lookup"
                /\ r.user_location = "" /\ r.emergency_number = ""
                /\ \A i \in DOMAIN r.calls :
                      r.calls[i] \notin {"detect_user_location", "get_emergency_info",
                                         "lookup", "format_emergency_numbers"})
    /\ [][(req'[1].kind = "chat" /\ ~req'[1].is_emergency) =>
             UNCHANGED <<user_locations, cache, lookups>>]_vars

\* a turn that names Delhi but whose verdict was not an emergency has been
\* answered: the session has no known location and nothing was looked up
C24_Witness ==
    /\ req[1].pc = "done" /\ req[1].kind = "chat" /\ req[1].response.status = 200
    /\ ~req[1].is_emergency
    /\ req[1].user_message = DangerMessage
    /\ DetectUserLocation(GetHistory(histories, "s1")) = "Delhi"
    /\ ~HasKey(user_locations, "s1")
    /\ cache = EmptyDict /\ lookups = EmptyDict

\* C25: once a session has a known location, no POST /chat changes it or runs
\* the location detection for that session again, whatever place a later user
\* turn names; an emergency turn of the session uses the known location; the
\* entry goes away only through a clear of that session.
C25_LocationSetOnce ==
    /\ [](/\ \A sid \in DOMAIN user_locations : user_locations[sid] # ""
          /\ LET r == req[1]
             IN  (r.kind = "chat" /\ r.is_emergency /\ HasKey(user_locations, r.session_id)) =>
                    r.user_location = user_locations[r.session_id])
    /\ [][/\ \A sid \in DOMAIN user_locations :
                \/ HasKey(user_locations', sid) /\ user_locations'[sid] = user_locations[sid]
                \/ /\ req'[1].kind = "clear" /\ req'[1].session_id = sid
                   /\ ~HasKey(user_locations', sid)
          /\ (req[1].pc = "emergency" /\ HasKey(user_locations, req[1].session_id)) =>
                \A i \in DOMAIN req'[1].calls : req'[1].calls[i] # "detect_user_location"]_vars

\* an emergency turn whose message names Pune, on a session known to be in
\* Delhi, has been answered with Delhi as its location and without detection
C25_Witness ==
    /\ req[1].pc = "done" /\ req[1].kind = "chat" /\ req[1].is_emergency
    /\ req[1].user_message = MovedMessage
    /\ DetectUserLocation(<<Turn("user", MovedMessage)>>) = "Pune"
    /\ Get(user_locations, "s1", "") = "Delhi"
    /\ req[1].user_location = "Delhi"
    /\ \A i \in DOMAIN req[1].calls : req[1].calls[i] # "detect_user_location"

-----------------------------------------------------------------------------
(* The server with two worker threads serving two sessions, with clears *)

IsoNext ==
    \E w \in Workers :
        \/ \E body \in {Msg(DangerMessage, "s1"), Msg(TiredMessage, "s2")} : Receive(w, body, MaxConc)
        \/ PreCheck(w, Raised)
        \/ Emergency(w, Verdict(TRUE, "suicide", "high"))
        \/ Lookup(w, Raised)
        \/ Draft(w, Raised)
        \/ Refine(w, Raised)
        \/ Clear(w, ObjectBody([k \in {"session_id"} |-> JStr("s1")]))

IsoSpec == ServerInit /\ [][IsoNext]_vars

\* C26: session state is private to its key.  Whatever step a request on one
\* session key takes (a POST /chat stage or a POST /chat/clear), and however
\* the requests of two threads interleave, the history, the loop window and
\* the known location of every other key are what they were, present or absent.
C26_SessionsIsolated ==
    [][\A w \in Workers :
          req'[w] # req[w] =>
             \A other \in (Sessions \cup {"default"}) \ {req'[w].session_id} :
                /\ HasKey(histories', other) <=> HasKey(histories, other)
                /\ GetHistory(histories', other) = GetHistory(histories, other)
                /\ HasKey(loop_tracker', other) <=> HasKey(loop_tracker, other)
                /\ Get(loop_tracker', other, <<>>) = Get(loop_tracker, other, <<>>)
                /\ HasKey(user_locations', other) <=> HasKey(user_locations, other)
                /\ Get(user_locations', other, "") = Get(user_locations, other, "")]_vars

\* one thread has cleared s1, which had a history, a loop window and a
\* location, while the request of the other thread on s2 is in flight and the
\* history of s2 is in place
C26_Witness ==
    \E w, v \in Workers :
        /\ req[w].kind = "clear" /\ req[w].session_id = "s1"
        /\ req[w].known = {"histories", "loop_tracker", "user_locations"}
        /\ req[v].kind = "chat" /\ req[v].session_id = "s2" /\ Busy(v)
        /\ ~HasKey(histories, "s1")
        /\ GetHistory(histories, "s2") = <<Turn("user", TiredMessage)>>

-----------------------------------------------------------------------------
(* ConversationHistory.add_message called from two threads on one session. *)
(* No lock is taken, so a thread may be preempted between any two          *)
(* statements of the method: the membership test, the creation of the      *)
(* list, the append, the length test, the slice and its assignment.        *)

\* line 224: a thread enters add_message and tests `session_id not in self.histories`
ThreadAddMessage(w) ==
    LET sid == TestSession
        n == Len(Get(log, sid, <<>>))
        turn == Turn("user", TestMessage(n))
    IN  /\ ~Busy(w)
        /\ n < MaxCalls
        /\ log' = Put(log, sid, Append(Get(log, sid, <<>>), turn))
        /\ SetReq(w, [IdleReq EXCEPT
               !.pc = IF HasKey(histories, sid) THEN "append" ELSE "create",
               !.kind = "add_message", !.session_id = sid,
               !.appended = <<turn>>])
        /\ UNCHANGED <<max_length, histories, loop_tracker, user_locations, cache,
                       nreq, last, lookups>>

\* lines 225-235: the next statement of a thread inside add_message
ThreadStep(w) ==
    LET r == req[w]
        sid == r.session_id
    IN  /\ r.kind = "add_message"
        /\ CASE r.pc = "create" ->
                  \* line 225: self.histories[session_id] = []
                  /\ histories' = Put(histories, sid, <<>>)
                  /\ SetReq(w, [r EXCEPT !.pc = "append"])
             [] r.pc = "append" ->
                  \* lines 227-231: self.histories[session_id].append({...})
                  /\ histories' = Put(histories, sid, Append(histories[sid], r.appended[1]))
                  /\ SetReq(w, [r EXCEPT !.pc = "length"])
             [] r.pc = "length" ->
                  \* line 234: if len(self.histories[session_id]) > self.max_length
                  /\ UNCHANGED histories
                  /\ SetReq(w, [r EXCEPT
                         !.pc = IF Len(histories[sid]) > max_length THEN "slice" ELSE "done"])
             [] r.pc = "slice" ->
                  \* line 235, right-hand side: self.histories[session_id][-self.max_length:]
                  /\ UNCHANGED histories
                  /\ SetReq(w, [r EXCEPT !.pc = "store",
                                         !.slice = PyLast(histories[sid], max_length)])
             [] r.pc = "store" ->
                  \* line 235, assignment: self.histories[session_id] = ...
                  /\ histories' = Put(histories, sid, r.slice)
                  /\ SetReq(w, [r EXCEPT !.pc = "done"])
             [] OTHER -> FALSE
        /\ UNCHANGED <<max_length, loop_tracker, user_locations, cache, nreq, last, log,
                       lookups>>

ThreadNext ==
    \E w \in Workers :
        \/ ThreadAddMessage(w)
        \/ ThreadStep(w)

ThreadSpec == Init /\ [][ThreadNext]_vars

\* C27: under any interleaving of concurrent add_message calls on one session
\* the history never has more than max_length turns once the calls have
\* returned, and no turn is lost except by eviction of the oldest: after N
\* calls it has min(N, max_length) turns, each of them one that was appended.
C27_ConcurrentAppendsKept ==
    (\A w \in Workers : ~Busy(w)) =>
        LET sid == TestSession
            appended == Get(log, sid, <<>>)
            N == Len(appended)
            kept == GetHistory(histories, sid)
        IN  /\ Len(kept) <= max_length
            /\ Len(kept) = IF N < max_length THEN N ELSE max_length
            /\ \A i \in DOMAIN kept : \E j \in DOMAIN appended : kept[i] = appended[j]

-----------------------------------------------------------------------------
(* The server over a long run of turns of one session: blocked turns,      *)
(* emergency turns and normal turns, with and without a grounding keyword  *)
(* in the refined reply                                                    *)

GuardNext ==
    \/ Receive(1, Msg(TiredMessage, "s1"), MaxCalls)
    \/ \E out \in SeqPreCheckOutputs : PreCheck(1, out)
    \/ \E out \in SeqEmergencyOutputs : Emergency(1, out)
    \/ Lookup(1, Raised)
    \/ Draft(1, Raised)
    \/ \E out \in {TextOut("Breathe slowly"), TextOut("I hear you")} : Refine(1, out)

GuardSpec == ServerInit /\ [][GuardNext]_vars

\* C28: with the requests of one session handled one after another, the user
\* is never delivered three replies in a row that each have a grounding
\* keyword, and no four consecutive entries of the loop window include three
\* with a grounding keyword.
C28_LoopsBroken ==
    LET delivered == DeliveredReplies("s1")
        window == Get(loop_tracker, "s1", <<>>)
    IN  /\ \A i \in 1..(Len(delivered) - 2) :
              ~(/\ HasGrounding(delivered[i])
                /\ HasGrounding(delivered[i + 1])
                /\ HasGrounding(delivered[i + 2]))
        /\ \A i \in 1..(Len(window) - 2) :
              Cardinality({j \in i..(i + 3) :
                              j <= Len(window) /\ HasGrounding(window[j])}) <= 2

\* six turns of which three delivered a reply with a grounding keyword and one
\* was declared a loop; the window holds at least four accepted replies
C28_Witness ==
    /\ Len(DeliveredReplies("s1")) = 6
    /\ Len(Get(loop_tracker, "s1", <<>>)) >= 4
    /\ Cardinality({i \in 1..6 : HasGrounding(DeliveredReplies("s1")[i])}) >= 3
    /\ \E i \in 1..6 : DeliveredReplies("s1")[i] = LoopBreakReply

\* C29: a declared loop is sticky.  While at least 2 of the last 3 window
\* entries of the session have a grounding keyword, every refined reply with
\* a grounding keyword is declared a loop and answered with the
\* pattern-breaking text, and the window stays as it is; a declared loop and
\* a blocked turn leave the window as it is, so after a declared loop that
\* condition still holds; and it stops holding only through the append of a
\* refined reply without a grounding keyword.
C29_LoopIsSticky ==
    [][LET r == req[1]
           r2 == req'[1]
           armed == GroundingCount(loop_tracker, "s1") >= LoopThreshold
           armed2 == GroundingCount(loop_tracker', "s1") >= LoopThreshold
           refined == r.pc = "refine" /\ r2.pc = "done"
       IN  /\ (refined /\ armed /\ HasGrounding(r2.refined_reply)) =>
                /\ r2.is_loop
                /\ r2.response.loop_detected
                /\ r2.response.reply = LoopBreakReply
                /\ UNCHANGED loop_tracker
           /\ (refined /\ r2.is_loop) => (armed /\ armed2 /\ UNCHANGED loop_tracker)
           /\ (r.pc = "precheck" /\ r2.pc = "done") => UNCHANGED loop_tracker
           /\ (armed /\ ~armed2) =>
                /\ refined /\ ~HasGrounding(r2.refined_reply)
                /\ loop_tracker'["s1"] = PyLast(Append(loop_tracker["s1"], r2.refined_reply),
                                                LoopWindowMax)]_vars

\* a loop was declared, the next turn was blocked, and the turn after it was
\* declared a loop again, on the window of the first
C29_Witness ==
    LET delivered == DeliveredReplies("s1")
    IN  /\ req[1].pc = "done" /\ req[1].is_loop
        /\ \E i \in 1..(Len(delivered) - 2) :
              /\ delivered[i] = LoopBreakReply
              /\ delivered[i + 1] = CrisisReply
              /\ delivered[i + 2] = LoopBreakReply
              /\ i + 2 = Len(delivered)
        /\ Len(loop_tracker["s1"]) = 2

-----------------------------------------------------------------------------
(* Claims about the placeholder outside emergency turns, checked under Spec *)

-----------------------------------------------------------------------------
(* Claims about a POST /chat/clear overlapping a POST /chat on one session  *)
(* key, checked under IsoSpec                                                *)

\* C31: when a POST /chat/clear and a POST /chat on the same session key
\* overlap, the session state after both have completed is the result of one of
\* the two serial orders: the session is empty (chat, then clear: no history, no
\* loop window, no location), or it holds exactly what the chat wrote (clear,
\* then chat: its user turn followed by its assistant turn, its refined reply in
\* the loop window, its location).  Stated for the only chat request the server
\* has accepted and any completed clear of its key.
C31_ClearChatSerializable ==
    \A w, v \in Workers :
        LET r == req[w]
            s == r.session_id
            empty == /\ ~HasKey(histories, s)
                     /\ ~HasKey(loop_tracker, s)
                     /\ ~HasKey(user_locations, s)
            full == /\ GetHistory(histories, s) =
                          <<Turn("user", r.user_message), Turn("assistant", r.response.reply)>>
                    /\ Get(loop_tracker, s, <<>>) = <<r.refined_reply>>
                    /\ Get(user_locations, s, "") = r.user_location
        IN  (/\ nreq = 1
             /\ r.kind = "chat" /\ Delivered(w)
             /\ ClearedBy(v) /\ req[v].session_id = s) =>
                empty \/ full

-----------------------------------------------------------------------------
(* The server over emergency turns and clears whose session_id field is     *)
(* absent, null, the empty string or a non-empty string                     *)

KeyNext ==
    LET fields == {JNull, JStr(""), JStr("s1")}
        chats == {ObjectBody([k \in {"message"} |-> JStr(DangerMessage)])}
                   \cup {ObjectBody([k \in {"message", "session_id"} |->
                            IF k = "message" THEN JStr(DangerMessage) ELSE v]) : v \in fields}
        clears == {ObjectBody(EmptyDict)}
                   \cup {ObjectBody([k \in {"session_id"} |-> v]) : v \in fields}
    IN  \/ \E body \in chats : Receive(1, body, MaxTurns)
        \/ PreCheck(1, Raised)
        \/ Emergency(1, Verdict(TRUE, "suicide", "high"))
        \/ Lookup(1, Raised)
        \/ Draft(1, Raised)
        \/ Refine(1, Raised)
        \/ \E body \in clears : Clear(1, body)

KeySpec == ServerInit /\ [][KeyNext]_vars

\* C32: POST /chat and POST /chat/clear resolve the session_id field to the
\* same session key for every value of the field (absent, null, the empty
\* string, a non-empty string; absent means "default"): a POST /chat/clear that
\* follows a delivered POST /chat and carries the same session_id value is
\* answered for the chat's key, and afterwards the history, the loop window and
\* the location that the chat wrote are gone.
C32_ClearResolvesSameKey ==
    [][LET r == req[1]
           c == req'[1]
       IN  (/\ r.kind = "chat" /\ Delivered(1)
            /\ c.kind = "clear" /\ c.pc = "done"
            /\ c.sid_field = r.sid_field) =>
               /\ c.response.status = 200
               /\ c.session_id = r.session_id
               /\ ~HasKey(histories', r.session_id)
               /\ ~HasKey(loop_tracker', r.session_id)
               /\ ~HasKey(user_locations', r.session_id)]_vars

=============================================================================
